---------------------------- MODULE Spec2Model ----------------------------
(***************************************************************************)
(* Receipt codec (crates/ethcore/types/src/receipt.rs) and frozen-state    *)
(* registry load (crates/ethjson/src/spec/frozen.rs) of OpenEthereum.      *)
(*                                                                         *)
(* Bytes are naturals 0..255, byte strings are sequences of bytes.  The    *)
(* RLP stream/reader operators follow the `rlp` crate as it is called from *)
(* receipt.rs; hashes are 32 bytes and blooms 256 bytes, as on the wire.   *)
(* A Result is a record [ok, panic, err, val]: Ok(v) has ok = TRUE and     *)
(* val = v, Err(e) has ok = FALSE and err = e.                             *)
(***************************************************************************)
EXTENDS Naturals, Sequences, FiniteSets, TLC

(* ------------------------------ results ------------------------------- *)

Ok(v) == [ok |-> TRUE, panic |-> FALSE, err |-> "", val |-> v]

Err(e) == [ok |-> FALSE, panic |-> FALSE, err |-> e, val |-> <<>>]

\* a panic: the call does not return; like an error it ends every caller on
\* the way, but no caller receives a Result
Panic(e) == [ok |-> FALSE, panic |-> TRUE, err |-> e, val |-> <<>>]

(* ------------------------- widths on the wire ------------------------- *)

\* H256: the payload of TransactionOutcome::StateRoot
H256Len == 32

\* Bloom: 2048 bits
BloomLen == 256

\* Address (H160) of a log entry
AddressLen == 20

\* U256: at most 32 bytes of big-endian payload
U256Len == 32

\* TypedTxId::AccessList as u8
AccessListId == 1

Zeros(n) == [i \in 1..n |-> 0]

Fill(n, b) == [i \in 1..n |-> b]

(* --------------------------- RlpStream (write) ------------------------ *)

RECURSIVE BigEndian(_)
\* minimal big-endian bytes of n: no leading zero, the empty string for 0
BigEndian(n) == IF n = 0 THEN <<>> ELSE Append(BigEndian(n \div 256), n % 256)

RECURSIVE FromBigEndian(_)
FromBigEndian(bytes) ==
    IF bytes = <<>> THEN 0
    ELSE 256 * FromBigEndian(SubSeq(bytes, 1, Len(bytes) - 1)) + bytes[Len(bytes)]

\* Encoder::encode_value: a byte string as one RLP data item
encode_value(bytes) ==
    IF Len(bytes) = 0 THEN <<128>>
    ELSE IF Len(bytes) = 1 /\ bytes[1] < 128 THEN bytes
    ELSE IF Len(bytes) <= 55 THEN <<128 + Len(bytes)>> \o bytes
    ELSE <<183 + Len(BigEndian(Len(bytes)))>> \o BigEndian(Len(bytes)) \o bytes

RECURSIVE Concat(_)
Concat(seqs) == IF seqs = <<>> THEN <<>> ELSE Head(seqs) \o Concat(Tail(seqs))

\* RlpStream::begin_list(n) followed by n appended items: the list header is
\* inserted in front of the payload once the n-th item is appended
encode_list(items) ==
    LET payload == Concat(items) IN
    IF Len(payload) <= 55 THEN <<192 + Len(payload)>> \o payload
    ELSE <<247 + Len(BigEndian(Len(payload)))>> \o BigEndian(Len(payload)) \o payload

\* s.append(&u8): zero is the empty string
append_u8(c) == IF c # 0 THEN encode_value(<<c>>) ELSE encode_value(<<>>)

\* a U256 in memory: its 32 big-endian bytes
U256(n) == Zeros(U256Len - Len(BigEndian(n))) \o BigEndian(n)

RECURSIVE strip_leading_zeros(_)
strip_leading_zeros(bytes) ==
    IF bytes # <<>> /\ bytes[1] = 0 THEN strip_leading_zeros(Tail(bytes)) ELSE bytes

\* s.append(&U256): big-endian with the leading zero bytes stripped
append_U256(n) == encode_value(strip_leading_zeros(n))

\* s.append(&H256), s.append(&Bloom), s.append(&Address): the fixed bytes
append_fixed(bytes) == encode_value(bytes)

(* ---------------------------- Rlp (read) ------------------------------ *)

\* `let x = v;` followed by F(x)
With(v, F(_)) == F(v)

\* `let x = r?;` followed by F(x): an error is returned as it is
AndThen(r, F(_)) == IF ~r.ok THEN r ELSE F(r.val)

is_null(bytes) == bytes = <<>>

is_list(bytes) == ~is_null(bytes) /\ bytes[1] >= 192

is_data(bytes) == ~is_null(bytes) /\ bytes[1] < 192

\* decode_usize: a big-endian length, no leading zero, at most 8 bytes
decode_usize(bytes) ==
    IF Len(bytes) = 0 THEN Err("RlpInvalidIndirection")
    ELSE IF Len(bytes) > 8 THEN Err("RlpIsTooBig")
    ELSE IF bytes[1] = 0 THEN Err("RlpInvalidIndirection")
    ELSE Ok(FromBigEndian(bytes))

calculate_payload_info(bytes, len_of_len) ==
    IF Len(bytes) < 2 THEN Err("RlpIsTooShort")
    ELSE IF bytes[2] = 0 THEN Err("RlpDataLenWithZeroPrefix")
    ELSE IF Len(bytes) < 1 + len_of_len THEN Err("RlpIsTooShort")
    ELSE AndThen(decode_usize(SubSeq(bytes, 2, 1 + len_of_len)), LAMBDA n :
         IF n <= 55 THEN Err("RlpInvalidIndirection")
         ELSE Ok([header_len |-> 1 + len_of_len, value_len |-> n]))

\* PayloadInfo::from: header and value length read off the first bytes
PayloadInfo_from(bytes) ==
    IF bytes = <<>> THEN Err("RlpIsTooShort")
    ELSE IF bytes[1] <= 127 THEN Ok([header_len |-> 0, value_len |-> 1])
    ELSE IF bytes[1] <= 183 THEN Ok([header_len |-> 1, value_len |-> bytes[1] - 128])
    ELSE IF bytes[1] <= 191 \/ bytes[1] > 247
         THEN calculate_payload_info(bytes,
                  IF bytes[1] <= 191 THEN bytes[1] - 183 ELSE bytes[1] - 247)
    ELSE Ok([header_len |-> 1, value_len |-> bytes[1] - 192])

\* BasicDecoder::payload_info: the item must fit in the bytes at hand
payload_info(bytes) ==
    AndThen(PayloadInfo_from(bytes), LAMBDA item :
        IF item.header_len + item.value_len <= Len(bytes) THEN Ok(item)
        ELSE Err("RlpIsTooShort"))

\* Rlp::data: the payload of the item, list or not
data(bytes) ==
    AndThen(payload_info(bytes), LAMBDA pi :
        Ok(SubSeq(bytes, pi.header_len + 1, pi.header_len + pi.value_len)))

RECURSIVE consume_items(_)
\* the items framed one after the other from the front of a list payload,
\* up to the first position where payload_info fails (its error is kept)
consume_items(bytes) ==
    With(payload_info(bytes), LAMBDA pi :
        IF ~pi.ok THEN [items |-> <<>>, err |-> pi.err]
        ELSE With(consume_items(SubSeq(bytes,
                      pi.val.header_len + pi.val.value_len + 1, Len(bytes))),
                  LAMBDA rest :
                      [items |-> <<SubSeq(bytes, 1,
                                     pi.val.header_len + pi.val.value_len)>>
                                 \o rest.items,
                       err |-> rest.err]))

\* the framed items of a list item (none when the list itself is cut short)
list_items(bytes) ==
    With(data(bytes), LAMBDA d :
        IF ~d.ok THEN [items |-> <<>>, err |-> d.err] ELSE consume_items(d.val))

\* Rlp::at(index), index counted from 0
at(bytes, index) ==
    IF ~is_list(bytes) THEN Err("RlpExpectedToBeList")
    ELSE With(list_items(bytes), LAMBDA l :
             IF index < Len(l.items) THEN Ok(l.items[index + 1]) ELSE Err(l.err))

\* Rlp::iter: at(0), at(1), ... up to the first failure (none for a non-list)
iter(bytes) == IF ~is_list(bytes) THEN <<>> ELSE list_items(bytes).items

\* Rlp::item_count
item_count(bytes) ==
    IF is_list(bytes) THEN Ok(Len(iter(bytes))) ELSE Err("RlpExpectedToBeList")

\* decode_value of a long string: the length of the length, then the length
decode_long_value(bytes, len_of_len) ==
    IF Len(bytes) < 1 + len_of_len THEN Err("RlpInconsistentLengthAndData")
    ELSE AndThen(decode_usize(SubSeq(bytes, 2, 1 + len_of_len)), LAMBDA n :
         IF Len(bytes) < 1 + len_of_len + n
         THEN Err("RlpInconsistentLengthAndData")
         ELSE Ok(SubSeq(bytes, 2 + len_of_len, 1 + len_of_len + n)))

\* BasicDecoder::decode_value: the payload of a canonical data item
decode_value(bytes) ==
    IF bytes = <<>> THEN Err("RlpIsTooShort")
    ELSE IF bytes[1] <= 127 THEN Ok(<<bytes[1]>>)
    ELSE IF bytes[1] <= 183 THEN
         IF Len(bytes) < 1 + (bytes[1] - 128) THEN Err("RlpInconsistentLengthAndData")
         ELSE IF bytes[1] = 129 /\ bytes[2] < 128 THEN Err("RlpInvalidIndirection")
         ELSE Ok(SubSeq(bytes, 2, 1 + (bytes[1] - 128)))
    ELSE IF bytes[1] <= 191 THEN decode_long_value(bytes, bytes[1] - 183)
    ELSE Err("RlpExpectedToBeData")

\* <u8 as Decodable>::decode
decode_u8(bytes) ==
    AndThen(decode_value(bytes), LAMBDA v :
        IF Len(v) = 1 /\ v[1] # 0 THEN Ok(v[1])
        ELSE IF Len(v) = 0 THEN Ok(0)
        ELSE IF Len(v) = 1 THEN Err("RlpInvalidIndirection")
        ELSE Err("RlpIsTooBig"))

\* <U256 as Decodable>::decode
decode_U256(bytes) ==
    AndThen(decode_value(bytes), LAMBDA v :
        IF v # <<>> /\ v[1] = 0 THEN Err("RlpInvalidIndirection")
        ELSE IF Len(v) <= U256Len THEN Ok(Zeros(U256Len - Len(v)) \o v)
        ELSE Err("RlpIsTooBig"))

\* <H256 / Bloom / Address as Decodable>::decode: exactly `size` bytes
decode_fixed(bytes, size) ==
    AndThen(decode_value(bytes), LAMBDA v :
        IF Len(v) < size THEN Err("RlpIsTooShort")
        ELSE IF Len(v) > size THEN Err("RlpIsTooBig")
        ELSE Ok(v))

(* ------------------------------ LogEntry ------------------------------ *)

\* a log entry: [address: 20 bytes, topics: sequence of 32-byte hashes,
\* data: bytes]

RECURSIVE append_each(_, _)
\* the raw items written by appending every element of a sequence in order
append_each(Enc(_), xs) ==
    IF xs = <<>> THEN <<>> ELSE <<Enc(Head(xs))>> \o append_each(Enc, Tail(xs))

RECURSIVE collect(_, _)
\* iter().map(as_val).collect(): the decoded items, or the first error
collect(Dec(_), items) ==
    IF items = <<>> THEN Ok(<<>>)
    ELSE AndThen(Dec(Head(items)), LAMBDA h :
         AndThen(collect(Dec, Tail(items)), LAMBDA t : Ok(<<h>> \o t)))

\* Rlp::val_at(index): at(index)?.as_val()
val_at(bytes, index, Dec(_)) == AndThen(at(bytes, index), Dec)

\* Rlp::list_at(index): at(index)?.as_list()
list_at(bytes, index, Dec(_)) ==
    AndThen(at(bytes, index), LAMBDA a : collect(Dec, iter(a)))

\* an H256 taken from a byte string of any length, padded on the left or
\* cut on the right to 32 bytes
decode_H256_padded(bytes) ==
    AndThen(decode_value(bytes), LAMBDA v :
        IF Len(v) < H256Len THEN Ok(Zeros(H256Len - Len(v)) \o v)
        ELSE Ok(SubSeq(v, 1, H256Len)))

decode_H256(bytes) == decode_fixed(bytes, H256Len)

decode_Bloom(bytes) == decode_fixed(bytes, BloomLen)

decode_Address(bytes) == decode_fixed(bytes, AddressLen)

\* LogEntry::rlp_append: the list (address, topics, data)
LogEntry_rlp_append(l) ==
    encode_list(<<append_fixed(l.address),
                  encode_list(append_each(append_fixed, l.topics)),
                  encode_value(l.data)>>)

\* LogEntry::decode: val_at(0), list_at(1), val_at(2)
LogEntry_decode(bytes) ==
    AndThen(val_at(bytes, 0, decode_Address), LAMBDA address :
    AndThen(list_at(bytes, 1, decode_H256), LAMBDA topics :
    AndThen(val_at(bytes, 2, decode_value), LAMBDA dat :
        Ok([address |-> address, topics |-> topics, data |-> dat]))))

(* --------------------------- LegacyReceipt ---------------------------- *)

\* TransactionOutcome: one of three variants
Unknown == [tag |-> "Unknown", root |-> <<>>, code |-> 0]

StateRoot(h) == [tag |-> "StateRoot", root |-> h, code |-> 0]

StatusCode(c) == [tag |-> "StatusCode", root |-> <<>>, code |-> c]

LegacyReceipt(outcome, gas_used, log_bloom, logs) ==
    [gas_used |-> gas_used, log_bloom |-> log_bloom, logs |-> logs,
     outcome |-> outcome]

\* decode_outcome taking only a one-byte field 0 for a status code
decode_outcome_one_byte_only(first) ==
    IF is_data(first)
    THEN AndThen(data(first), LAMBDA d :
             IF Len(d) = 1
             THEN AndThen(decode_u8(first), LAMBDA c : Ok(StatusCode(c)))
             ELSE AndThen(decode_H256(first), LAMBDA h : Ok(StateRoot(h))))
    ELSE AndThen(decode_H256(first), LAMBDA h : Ok(StateRoot(h)))

\* the outcome of a 4-item list, read off field 0:
\* first.is_data() && first.data()?.len() <= 1
decode_outcome(first) ==
    IF is_data(first)
    THEN AndThen(data(first), LAMBDA d :
             IF Len(d) <= 1
             THEN AndThen(decode_u8(first), LAMBDA c : Ok(StatusCode(c)))
             ELSE AndThen(decode_H256(first), LAMBDA h : Ok(StateRoot(h))))
    ELSE AndThen(decode_H256(first), LAMBDA h : Ok(StateRoot(h)))

\* decode_fields rebuilding the bloom from the logs read, as
\* LegacyReceipt::new does: with no logs that is the zero bloom
decode_fields_bloom_from_logs(bytes, base, outcome) ==
    AndThen(val_at(bytes, base, decode_U256), LAMBDA gas_used :
    AndThen(val_at(bytes, base + 1, decode_Bloom), LAMBDA log_bloom :
    AndThen(list_at(bytes, base + 2, LogEntry_decode), LAMBDA logs :
    AndThen(outcome, LAMBDA o :
        Ok(LegacyReceipt(o, gas_used,
                         IF logs = <<>> THEN Zeros(BloomLen) ELSE log_bloom,
                         logs))))))

\* the fields gasUsed, logBloom, logs at positions base, base + 1, base + 2,
\* then the outcome: the fields of the struct literal in the order written
decode_fields(bytes, base, outcome) ==
    AndThen(val_at(bytes, base, decode_U256), LAMBDA gas_used :
    AndThen(val_at(bytes, base + 1, decode_Bloom), LAMBDA log_bloom :
    AndThen(list_at(bytes, base + 2, LogEntry_decode), LAMBDA logs :
    AndThen(outcome, LAMBDA o :
        Ok(LegacyReceipt(o, gas_used, log_bloom, logs))))))

\* LegacyReceipt::decode taking every list of 4 or more items as a 4-item one
LegacyReceipt_decode_at_least_4(bytes) ==
    AndThen(item_count(bytes), LAMBDA n :
        IF n = 3 THEN decode_fields(bytes, 0, Ok(Unknown))
        ELSE IF n >= 4 THEN decode_fields(bytes, 1, val_at(bytes, 0, decode_outcome))
        ELSE Err("RlpIncorrectListLen"))

\* LegacyReceipt::decode
LegacyReceipt_decode(bytes) ==
    AndThen(item_count(bytes), LAMBDA n :
        IF n = 3 THEN decode_fields(bytes, 0, Ok(Unknown))
        ELSE IF n = 4 THEN decode_fields(bytes, 1, val_at(bytes, 0, decode_outcome))
        ELSE Err("RlpIncorrectListLen"))

\* LegacyReceipt::rlp_append: the raw bytes the receipt adds to a stream
LegacyReceipt_rlp_append(r) ==
    encode_list(
        (CASE r.outcome.tag = "Unknown" -> <<>>
           [] r.outcome.tag = "StateRoot" -> <<append_fixed(r.outcome.root)>>
           [] r.outcome.tag = "StatusCode" -> <<append_u8(r.outcome.code)>>)
        \o <<append_U256(r.gas_used), append_fixed(r.log_bloom),
             encode_list(append_each(LogEntry_rlp_append, r.logs))>>)

(* ------------------------- LegacyReceipt::new ------------------------- *)

RECURSIVE BitOr(_, _)
\* a | b on bytes
BitOr(a, b) ==
    IF a = 0 THEN b
    ELSE IF b = 0 THEN a
    ELSE (IF a % 2 = 1 \/ b % 2 = 1 THEN 1 ELSE 0) + 2 * BitOr(a \div 2, b \div 2)

\* a bloom as the sequence of its bytes
Bloom(bytes) == bytes \o <<>>

\* Bloom::accrue_bloom: self.0[i] |= bloom.0[i] for every byte
accrue_bloom(b, bloom) == Bloom([i \in 1..BloomLen |-> BitOr(b[i], bloom[i])])

RECURSIVE Sum(_)
Sum(bytes) == IF bytes = <<>> THEN 0 ELSE Head(bytes) + Sum(Tail(bytes))

\* the first six bytes of the hash of the input.  The code hashes with
\* keccak256; the model puts a fixed function of the bytes in its place,
\* which is all that the accrual of blooms reads of it.
hash_prefix(bytes) ==
    [i \in 1..6 |-> (Sum(bytes) * (2 * i + 1) + 31 * Len(bytes) + 17 * i) % 256]

\* the three bit positions of an input in the 2048-bit space: the low 11 bits
\* of the byte pairs 0-1, 2-3 and 4-5 of its hash
bloom_bits(bytes) ==
    {(256 * hash_prefix(bytes)[2 * k - 1] + hash_prefix(bytes)[2 * k]) % 2048 :
        k \in 1..3}

Pow2(k) == CASE k = 0 -> 1 [] k = 1 -> 2 [] k = 2 -> 4 [] k = 3 -> 8
             [] k = 4 -> 16 [] k = 5 -> 32 [] k = 6 -> 64 [] OTHER -> 128

\* the bits of byte i (1 the first) that belong to the given bit positions:
\* bit n lies in byte BloomLen - n / 8, at 1 << (n % 8)
bit_mask(bits, i) ==
    Sum([k \in 1..8 |->
            IF 8 * (BloomLen - i) + (k - 1) \in bits THEN Pow2(k - 1) ELSE 0])

\* Bloom::accrue(BloomInput::Raw(bytes))
accrue(b, bytes) ==
    With(bloom_bits(bytes), LAMBDA bits :
        Bloom([i \in 1..BloomLen |-> BitOr(b[i], bit_mask(bits, i))]))

RECURSIVE accrue_each(_, _)
accrue_each(b, inputs) ==
    IF inputs = <<>> THEN b
    ELSE accrue_each(accrue(b, Head(inputs)), Tail(inputs))

\* LogEntry::bloom: the address, then every topic, accrued
LogEntry_bloom(l) == accrue_each(accrue(Zeros(BloomLen), l.address), l.topics)

RECURSIVE fold_blooms(_, _)
\* logs.iter().fold(Bloom::default(), |b, l| b.accrue_bloom(&l.bloom()))
fold_blooms(b, logs) ==
    IF logs = <<>> THEN b
    ELSE fold_blooms(accrue_bloom(b, LogEntry_bloom(Head(logs))), Tail(logs))

\* LegacyReceipt::new taking the bloom of the first log only
LegacyReceipt_new_first_log_only(outcome, gas_used, logs) ==
    LegacyReceipt(outcome, gas_used,
                  IF logs = <<>> THEN Zeros(BloomLen) ELSE LogEntry_bloom(logs[1]),
                  logs)

\* LegacyReceipt::new
LegacyReceipt_new(outcome, gas_used, logs) ==
    LegacyReceipt(outcome, gas_used, fold_blooms(Zeros(BloomLen), logs), logs)

(* ---------------------------- TypedReceipt ---------------------------- *)

Legacy(r) == [type |-> "Legacy", receipt |-> r]

AccessList(r) == [type |-> "AccessList", receipt |-> r]

\* TypedTxId::try_from_wire_byte: the AccessList id, else Legacy for any
\* byte with the high bit set, else no type
try_from_wire_byte(n) ==
    IF n = AccessListId THEN Ok("AccessList")
    ELSE IF n >= 128 THEN Ok("Legacy")
    ELSE Err("()")

\* TypedReceipt::decode reading the receipt list from the type byte on
TypedReceipt_decode_keep_type_byte(tx) ==
    IF tx = <<>> THEN Err("RlpIncorrectListLen")
    ELSE With(try_from_wire_byte(tx[1]), LAMBDA id :
         IF ~id.ok THEN Err("Unknown transaction")
         ELSE IF id.val = "AccessList"
              THEN AndThen(LegacyReceipt_decode(tx), LAMBDA r : Ok(AccessList(r)))
              ELSE AndThen(LegacyReceipt_decode(tx), LAMBDA r : Ok(Legacy(r))))

\* TypedReceipt::decode taking a byte that is no type for Legacy
TypedReceipt_decode_default_legacy(tx) ==
    IF tx = <<>> THEN Err("RlpIncorrectListLen")
    ELSE With(try_from_wire_byte(tx[1]), LAMBDA id :
         IF id.ok /\ id.val = "AccessList"
         THEN AndThen(LegacyReceipt_decode(Tail(tx)), LAMBDA r : Ok(AccessList(r)))
         ELSE AndThen(LegacyReceipt_decode(tx), LAMBDA r : Ok(Legacy(r))))

\* TypedReceipt::decode looking the type up before the emptiness check: no
\* first byte is no type
TypedReceipt_decode_empty_unknown(tx) ==
    IF tx = <<>> THEN Err("Unknown transaction")
    ELSE With(try_from_wire_byte(tx[1]), LAMBDA id :
         IF ~id.ok THEN Err("Unknown transaction")
         ELSE IF id.val = "AccessList"
              THEN AndThen(LegacyReceipt_decode(Tail(tx)), LAMBDA r : Ok(AccessList(r)))
              ELSE AndThen(LegacyReceipt_decode(tx), LAMBDA r : Ok(Legacy(r))))

\* TypedReceipt::decode
TypedReceipt_decode(tx) ==
    IF tx = <<>> THEN Err("RlpIncorrectListLen")
    ELSE With(try_from_wire_byte(tx[1]), LAMBDA id :
         IF ~id.ok THEN Err("Unknown transaction")
         ELSE IF id.val = "AccessList"
              THEN AndThen(LegacyReceipt_decode(Tail(tx)), LAMBDA r : Ok(AccessList(r)))
              ELSE AndThen(LegacyReceipt_decode(tx), LAMBDA r : Ok(Legacy(r))))

\* TypedReceipt::decode_rlp without the list branch: the payload of every item
\* goes to TypedReceipt::decode
TypedReceipt_decode_rlp_always_data(bytes) ==
    AndThen(data(bytes), LAMBDA d : TypedReceipt_decode(d))

\* TypedReceipt::decode_rlp
TypedReceipt_decode_rlp(bytes) ==
    IF is_list(bytes)
    THEN AndThen(LegacyReceipt_decode(bytes), LAMBDA r : Ok(Legacy(r)))
    ELSE AndThen(data(bytes), LAMBDA d : TypedReceipt_decode(d))

RECURSIVE collect_decoded(_)
\* the receipts of the items that decode, the others left out
collect_decoded(items) ==
    IF items = <<>> THEN <<>>
    ELSE With(TypedReceipt_decode_rlp(Head(items)), LAMBDA r :
         (IF r.ok THEN <<r.val>> ELSE <<>>) \o collect_decoded(Tail(items)))

\* TypedReceipt::decode_rlp_list passing over the items that do not decode
TypedReceipt_decode_rlp_list_skip_bad(bytes) ==
    IF ~is_list(bytes) THEN Err("RlpIncorrectListLen")
    ELSE Ok(collect_decoded(iter(bytes)))

\* TypedReceipt::decode_rlp_list
TypedReceipt_decode_rlp_list(bytes) ==
    IF ~is_list(bytes) THEN Err("RlpIncorrectListLen")
    ELSE collect(TypedReceipt_decode_rlp, iter(bytes))

\* TypedReceipt::rlp_append writing the typed bytes raw instead of as one
\* byte string
TypedReceipt_rlp_append_raw(t) ==
    IF t.type = "Legacy" THEN LegacyReceipt_rlp_append(t.receipt)
    ELSE <<AccessListId>> \o LegacyReceipt_rlp_append(t.receipt)

\* TypedReceipt::rlp_append: the raw bytes the receipt adds to a stream
TypedReceipt_rlp_append(t) ==
    IF t.type = "Legacy" THEN LegacyReceipt_rlp_append(t.receipt)
    ELSE encode_value(<<AccessListId>> \o LegacyReceipt_rlp_append(t.receipt))

\* TypedReceipt::rlp_append_list
TypedReceipt_rlp_append_list(list) ==
    encode_list(append_each(TypedReceipt_rlp_append, list))

\* TypedReceipt::encode wrapping the typed bytes as an RLP byte string, as
\* rlp_append does
TypedReceipt_encode_as_string(t) ==
    IF t.type = "Legacy" THEN LegacyReceipt_rlp_append(t.receipt)
    ELSE encode_value(<<AccessListId>> \o LegacyReceipt_rlp_append(t.receipt))

\* TypedReceipt::encode
TypedReceipt_encode(t) ==
    IF t.type = "Legacy" THEN LegacyReceipt_rlp_append(t.receipt)
    ELSE <<AccessListId>> \o LegacyReceipt_rlp_append(t.receipt)

(* --------------------------- frozen state ----------------------------- *)

\* The frozen-state resource is modelled as the JSON document it holds, in
\* document order: a sequence of block entries [number, traces, cut], each
\* trace [id, balanceOps, storageChanges, receipt] with its fields in the
\* order of the fixture.  Hashes, addresses and numbers are their values;
\* op, the variant names and the logBloom text are the JSON strings.  An
\* entry with cut = TRUE is where the document ends early.

\* the op of a balanceOp object that has no such field
Absent == "<absent>"

HexDigits ==
    <<"0", "1", "2", "3", "4", "5", "6", "7", "8", "9",
      "a", "b", "c", "d", "e", "f">>

\* the value of one hex character, 16 for a character that is none
hex_val(c) ==
    CASE c = "0" -> 0 [] c = "1" -> 1 [] c = "2" -> 2 [] c = "3" -> 3
      [] c = "4" -> 4 [] c = "5" -> 5 [] c = "6" -> 6 [] c = "7" -> 7
      [] c = "8" -> 8 [] c = "9" -> 9
      [] c \in {"a", "A"} -> 10 [] c \in {"b", "B"} -> 11
      [] c \in {"c", "C"} -> 12 [] c \in {"d", "D"} -> 13
      [] c \in {"e", "E"} -> 14 [] c \in {"f", "F"} -> 15
      [] OTHER -> 16

\* hex::decode: two characters a byte; an odd length or a character that is
\* no hex digit is an error
hex_decode(text) ==
    IF Len(text) % 2 = 1 THEN Err("OddLength")
    ELSE IF \E i \in 1..Len(text) : hex_val(text[i]) = 16
         THEN Err("InvalidHexCharacter")
    ELSE Ok([i \in 1..(Len(text) \div 2) |->
                16 * hex_val(text[2 * i - 1]) + hex_val(text[2 * i])])

Min(a, b) == IF a <= b THEN a ELSE b

RECURSIVE inflate_blocks(_, _)
\* inflate::inflate_bytes on a raw DEFLATE stream of stored blocks: a header
\* byte (bit 0 the last-block flag, bits 1-2 the block type), LEN and NLEN as
\* two little-endian bytes each, then LEN bytes.  Block type 3 and a NLEN
\* that is not the complement of LEN are errors; input that ends early ends
\* the decoding with the bytes got so far.  Huffman-coded blocks (types 1
\* and 2) are not modelled: no logBloom text of the model holds one.
inflate_blocks(bytes, out) ==
    IF bytes = <<>> THEN Ok(out)
    ELSE IF (bytes[1] \div 2) % 4 # 0 THEN Err("invalid block type")
    ELSE IF Len(bytes) < 5 THEN Ok(out)
    ELSE IF bytes[2] + bytes[4] # 255 \/ bytes[3] + bytes[5] # 255
         THEN Err("invalid stored block lengths")
    ELSE With(Min(bytes[2] + 256 * bytes[3], Len(bytes) - 5), LAMBDA n :
         IF bytes[1] % 2 = 1 \/ n < bytes[2] + 256 * bytes[3]
         THEN Ok(out \o SubSeq(bytes, 6, 5 + n))
         ELSE inflate_blocks(SubSeq(bytes, 6 + n, Len(bytes)),
                             out \o SubSeq(bytes, 6, 5 + n)))

inflate_bytes(bytes) == inflate_blocks(bytes, <<>>)

\* unwrap(): an error is a panic
unwrap(r) == IF r.ok THEN r ELSE Panic(r.err)

\* Bloom::from_slice: asserts the length
Bloom_from_slice(bytes) ==
    IF Len(bytes) = BloomLen THEN Ok(bytes) ELSE Panic("assertion failed: length")

\* deserialize_bloom: a JSON string; the text after its first two characters
\* is hex-decoded, inflated and taken as the bloom
deserialize_bloom(json) ==
    IF ~json.string THEN Err("invalid type: expected a string")
    ELSE IF Len(json.text) < 2 THEN Panic("byte index 2 is out of bounds")
    ELSE AndThen(unwrap(hex_decode(SubSeq(json.text, 3, Len(json.text)))),
                 LAMBDA compressed :
         AndThen(unwrap(inflate_bytes(compressed)), Bloom_from_slice))

\* TransactionOutcome as Deserialize, variants renamed to camelCase
deserialize_TransactionOutcome(json) ==
    CASE json.tag = "unknown" -> Ok(Unknown)
      [] json.tag = "stateRoot" -> Ok(StateRoot(json.root))
      [] json.tag = "statusCode" ->
            IF json.code <= 255 THEN Ok(StatusCode(json.code))
            ELSE Err("invalid value: expected u8")
      [] OTHER -> Err("unknown variant")

\* LegacyReceipt as Deserialize: gasUsed, logBloom, logs, outcome
deserialize_LegacyReceipt(json) ==
    AndThen(deserialize_bloom(json.logBloom), LAMBDA log_bloom :
    AndThen(deserialize_TransactionOutcome(json.outcome), LAMBDA outcome :
        Ok(LegacyReceipt(outcome, json.gasUsed, log_bloom, json.logs))))

\* TypedReceipt as Deserialize, variants renamed to camelCase
deserialize_TypedReceipt(json) ==
    IF json.variant \notin {"legacy", "accessList"} THEN Err("unknown variant")
    ELSE AndThen(deserialize_LegacyReceipt(json.receipt), LAMBDA r :
         IF json.variant = "legacy" THEN Ok(Legacy(r)) ELSE Ok(AccessList(r)))

\* Op as Deserialize with the two variants taken for each other
deserialize_Op_swapped(json) ==
    CASE json = "add" -> Ok("Sub")
      [] json = "sub" -> Ok("Add")
      [] json = Absent -> Err("missing field op")
      [] OTHER -> Err("unknown variant")

\* Op as Deserialize, variants renamed to camelCase
deserialize_Op(json) ==
    CASE json = "add" -> Ok("Add")
      [] json = "sub" -> Ok("Sub")
      [] json = Absent -> Err("missing field op")
      [] OTHER -> Err("unknown variant")

\* BalanceOp as Deserialize
deserialize_BalanceOp(json) ==
    AndThen(deserialize_Op(json.op), LAMBDA op :
        Ok([account |-> json.account, amount |-> json.amount, op |-> op]))

\* StorageChange as Deserialize
deserialize_StorageChange(json) ==
    Ok([account |-> json.account, key |-> json.key, value |-> json.value])

\* TransactionTrace as Deserialize
deserialize_TransactionTrace(json) ==
    AndThen(collect(deserialize_BalanceOp, json.balanceOps), LAMBDA balance_ops :
    AndThen(collect(deserialize_StorageChange, json.storageChanges),
            LAMBDA storage_changes :
    AndThen(deserialize_TypedReceipt(json.receipt), LAMBDA r :
        Ok([id |-> json.id, balance_ops |-> balance_ops,
            storage_changes |-> storage_changes, receipt |-> r]))))

\* BTreeMap::insert: the value of an existing key is replaced
insert(map, key, value) ==
    [k \in DOMAIN map \cup {key} |-> IF k = key THEN value ELSE map[k]]

RECURSIVE deserialize_entries(_, _)
\* BTreeMap<u64, Vec<TransactionTrace>> as Deserialize: the entries one by
\* one in document order into a map that is returned only when all are read
deserialize_entries(entries, map) ==
    IF entries = <<>> THEN Ok(map)
    ELSE IF Head(entries).cut THEN Err("EOF while parsing")
    ELSE AndThen(collect(deserialize_TransactionTrace, Head(entries).traces),
                 LAMBDA traces :
         deserialize_entries(Tail(entries),
                             insert(map, Head(entries).number, traces)))

\* the registry with no entry
EmptyTable == [k \in {} |-> <<>>]

\* restore_frozen_state
restore_frozen_state(resource) == deserialize_entries(resource, EmptyTable)

Some(v) == [some |-> TRUE, val |-> v]

None == [some |-> FALSE, val |-> <<>>]

\* BTreeMap::get
get(map, key) == IF key \in DOMAIN map THEN Some(map[key]) ELSE None

(* ------------------------- applying a trace --------------------------- *)

\* The component that applies a trace is not part of these sources; it is
\* modelled from its contract: the balance operations in listed order, then
\* the storage changes in listed order, then the recorded receipt.  A state
\* is [balances, storage]: a balance for every account, a value for every
\* (account, key) slot.

\* one BalanceOp: add or subtract amount on the account's balance
apply_balance_op(balances, op) ==
    [balances EXCEPT ![op.account] =
        IF op.op = "Add" THEN @ + FromBigEndian(op.amount)
        ELSE @ - FromBigEndian(op.amount)]

RECURSIVE apply_balance_ops(_, _)
apply_balance_ops(balances, ops) ==
    IF ops = <<>> THEN balances
    ELSE apply_balance_ops(apply_balance_op(balances, Head(ops)), Tail(ops))

\* one StorageChange: the slot is set to the value, whatever it held
apply_storage_change(storage, change) ==
    [storage EXCEPT ![<<change.account, change.key>>] = change.value]

RECURSIVE apply_storage_changes_first_wins(_, _)
\* the storage changes applied last to first
apply_storage_changes_first_wins(storage, changes) ==
    IF changes = <<>> THEN storage
    ELSE apply_storage_change(
             apply_storage_changes_first_wins(storage, Tail(changes)),
             Head(changes))

RECURSIVE apply_storage_changes(_, _)
apply_storage_changes(storage, changes) ==
    IF changes = <<>> THEN storage
    ELSE apply_storage_changes(apply_storage_change(storage, Head(changes)),
                               Tail(changes))

\* a trace applied to a state: the state after it and the transaction's
\* receipt
apply_trace(state, trace) ==
    [balances |-> apply_balance_ops(state.balances, trace.balance_ops),
     storage |-> apply_storage_changes(state.storage, trace.storage_changes),
     receipt |-> trace.receipt]

(* ------------------------------ inputs -------------------------------- *)

\* most logs in one receipt
MaxLogs == 2

\* most receipts in one batch
MaxBatch == 2

SeqsUpTo(S, n) == UNION {[1..k -> S] : k \in 0..n}

HashA == [i \in 1..H256Len |-> 46 + i]

Hashes == {Zeros(H256Len), HashA}

BloomA == [i \in 1..BloomLen |-> IF i \in {62, 128, 235} THEN 8 ELSE 0]

Blooms == {Zeros(BloomLen), BloomA}

GasValues == {U256(0), U256(128), U256(265390)}

StatusCodes == {0, 1, 127, 128, 255}

LogA == [address |-> [i \in 1..AddressLen |-> 219 + i], topics |-> <<>>,
         data |-> Zeros(32)]

LogB == [address |-> Zeros(AddressLen), topics |-> <<HashA, Zeros(H256Len)>>,
         data |-> <<5>>]

LogSeqs == SeqsUpTo({LogA, LogB}, MaxLogs)

Outcomes ==
    {Unknown} \cup {StateRoot(h) : h \in Hashes}
              \cup {StatusCode(c) : c \in StatusCodes}

Receipts ==
    {LegacyReceipt(o, g, b, l) :
        o \in Outcomes, g \in GasValues, b \in Blooms, l \in LogSeqs}

TypedReceipts == {Legacy(r) : r \in Receipts} \cup {AccessList(r) : r \in Receipts}

\* the receipts batches are made of
BatchReceipts ==
    LET rs == {LegacyReceipt(Unknown, U256(0), Zeros(BloomLen), <<>>),
               LegacyReceipt(StateRoot(HashA), U256(265390), BloomA, <<LogA>>),
               LegacyReceipt(StatusCode(0), U256(128), BloomA, <<LogB, LogA>>)}
    IN {Legacy(r) : r \in rs} \cup {AccessList(r) : r \in rs}

Batches == SeqsUpTo(BatchReceipts, MaxBatch)

NoReceipt == Legacy(LegacyReceipt(Unknown, <<>>, <<>>, <<>>))

NoResult == Err("none")

\* the arguments handed to LegacyReceipt::new
NewArgs ==
    [outcome : Outcomes, gas_used : GasValues, logs : LogSeqs]

\* placeholders when LegacyReceipt::new is not what the caller does
NoArgs == [outcome |-> Unknown, gas_used |-> <<>>, logs |-> <<>>]

NotMade == LegacyReceipt(Unknown, <<>>, <<>>, <<>>)

(* ----------------------- bytes sent by a peer ------------------------- *)

\* well-formed fields gasUsed, logBloom, logs
GasItem == append_U256(U256(128))

BloomItem == append_fixed(BloomA)

LogsItem == encode_list(<<LogEntry_rlp_append(LogA)>>)

\* candidates for field 0 of a 4-item list: byte strings of length 0, 1, 2,
\* 31, 32 and 33, a single zero byte, a non-canonical single byte, nested lists
FirstFields ==
    {encode_value(<<>>), <<0>>, <<1>>, <<127>>, encode_value(<<128>>), <<129, 5>>,
     encode_value(Fill(2, 7)), encode_value(Fill(H256Len - 1, 7)),
     encode_value(Fill(H256Len, 7)), encode_value(Fill(H256Len + 1, 7)),
     encode_list(<<>>), encode_list(<<encode_value(Fill(H256Len, 7))>>)}

\* most items in a list sent by a peer
MaxItems == 5

\* lists of 0..MaxItems items: the first k of (field 0, gasUsed, logBloom,
\* logs, gasUsed, gasUsed, ...), and the same without field 0
PeerLists ==
    LET padded(f) == f \o [i \in 1..MaxItems |-> GasItem] IN
    {encode_list(SubSeq(padded(<<f0, GasItem, BloomItem, LogsItem>>), 1, k)) :
        f0 \in FirstFields, k \in 0..MaxItems}
    \cup {encode_list(SubSeq(padded(<<GasItem, BloomItem, LogsItem>>), 1, k)) :
        k \in 0..MaxItems}

\* lists whose gasUsed, logBloom or logs field is not of its type, a list cut
\* short and a list followed by one more byte
PeerBadFields ==
    LET good == encode_list(<<GasItem, BloomItem, LogsItem>>) IN
    {encode_list(<<<<130, 0, 1>>, BloomItem, LogsItem>>),
     encode_list(<<GasItem, encode_value(Fill(BloomLen - 1, 0)), LogsItem>>),
     encode_list(<<GasItem, BloomItem, encode_value(<<>>)>>),
     encode_list(<<<<1>>, GasItem, BloomItem, encode_list(<<encode_list(<<>>)>>)>>),
     SubSeq(good, 1, Len(good) - 1),
     Append(good, 0)}

\* first bytes of a typed payload: ids with and without a transaction type
TypeBytes == {0, AccessListId, 2, 127, 128, 200}

\* typed payloads: a type byte followed by nothing, a receipt list or a
\* byte that is no list; and receipt lists with no type byte
PeerPayloads ==
    LET tails == {<<>>, <<5>>,
                  encode_list(<<GasItem, BloomItem, LogsItem>>),
                  encode_list(<<<<1>>, GasItem, BloomItem, LogsItem>>),
                  encode_list(<<GasItem, BloomItem>>)}
    IN {<<b>> \o t : b \in TypeBytes, t \in tails}
       \cup {encode_list(<<GasItem, BloomItem, LogsItem>>)}

\* receipts lists sent by a peer: well-formed items mixed with items that
\* do not decode, an item that is no list at all, and a list whose payload
\* ends, after a well-formed item, in the header of a string that is not there
PeerBatches ==
    LET good1 == TypedReceipt_rlp_append(
                     Legacy(LegacyReceipt(StatusCode(1), U256(128), BloomA, <<LogA>>)))
        good2 == TypedReceipt_rlp_append(
                     AccessList(LegacyReceipt(Unknown, U256(0), BloomA, <<>>)))
        bad1 == encode_value(<<127>> \o encode_list(<<GasItem, BloomItem, LogsItem>>))
        bad2 == encode_list(<<GasItem, BloomItem>>)
        items == {good1, good2, bad1, bad2}
    IN {encode_list(l) : l \in SeqsUpTo(items, MaxBatch)}
       \cup {encode_value(<<>>), encode_list(<<good1, <<184>>>>)}

\* everything a peer may send: as raw bytes, and as one RLP byte string
PeerBytes ==
    {<<>>} \cup PeerLists \cup PeerBadFields \cup PeerPayloads \cup PeerBatches
           \cup {encode_value(p) : p \in PeerPayloads \cup {<<>>}}

(* ---------------------- frozen-state resources ------------------------ *)

\* the longest resource, in block entries
MaxBlocks == 2

\* the text of a logBloom: "0x", then two hex characters a byte
hex_text(bytes) ==
    <<"0", "x">> \o [i \in 1..(2 * Len(bytes)) |->
        IF i % 2 = 1 THEN HexDigits[(bytes[(i + 1) \div 2] \div 16) + 1]
        ELSE HexDigits[(bytes[i \div 2] % 16) + 1]]

\* bytes as one stored DEFLATE block, the last of its stream
stored_block(bytes) ==
    <<1, Len(bytes) % 256, Len(bytes) \div 256,
      255 - (Len(bytes) % 256), 255 - (Len(bytes) \div 256)>> \o bytes

JsonString(text) == [string |-> TRUE, text |-> text]

\* a logBloom as the fixture gives it: hex of the deflated bloom
BloomJson(bloom) == JsonString(hex_text(stored_block(bloom)))

\* logBloom values that are not the hex of a deflated 256-byte bloom: not a
\* string, shorter than two characters, not hex, an odd number of hex
\* characters, not a DEFLATE stream, a stream cut short, a bloom of 255 bytes
BadBloomJsons ==
    { [string |-> FALSE, text |-> <<>>],
      JsonString(<<"0">>),
      JsonString(<<"0", "x", "z", "z">>),
      JsonString(<<"0", "x", "0", "1", "0">>),
      JsonString(hex_text(<<7>>)),
      JsonString(hex_text(SubSeq(stored_block(BloomA), 1, 100))),
      JsonString(hex_text(stored_block(Zeros(BloomLen - 1)))) }

AccountA == [i \in 1..AddressLen |-> 10 + i]

AccountB == [i \in 1..AddressLen |-> 60 + i]

BalanceOpJson(account, amount, op) ==
    [account |-> account, amount |-> U256(amount), op |-> op]

StorageChangeJson(account, key, value) ==
    [account |-> account, key |-> key, value |-> value]

OutcomeJson(tag, root, code) == [tag |-> tag, root |-> root, code |-> code]

ReceiptJson(variant, outcome, bloom) ==
    [variant |-> variant,
     receipt |-> [gasUsed |-> U256(265390), logBloom |-> bloom,
                  logs |-> <<LogB>>, outcome |-> outcome]]

TraceJson(id, ops, changes, r) ==
    [id |-> id, balanceOps |-> ops, storageChanges |-> changes, receipt |-> r]

StatusOne == OutcomeJson("statusCode", <<>>, 1)

\* a trace like the fixture's: three balance operations, two storage
\* changes, a legacy receipt with status code 1
TraceA ==
    TraceJson(HashA,
        <<BalanceOpJson(AccountA, 500, "sub"), BalanceOpJson(AccountA, 128, "add"),
          BalanceOpJson(AccountB, 265390, "add")>>,
        <<StorageChangeJson(AccountB, HashA, U256(1)),
          StorageChangeJson(AccountB, Zeros(H256Len), U256(0))>>,
        ReceiptJson("legacy", StatusOne, BloomJson(BloomA)))

TraceB ==
    TraceJson(Zeros(H256Len), <<>>, <<>>,
        ReceiptJson("accessList", OutcomeJson("stateRoot", HashA, 0),
                    BloomJson(Zeros(BloomLen))))

\* a trace whose receipt has the status code 2
TraceC ==
    TraceJson(HashA, <<>>, <<>>,
        ReceiptJson("legacy", OutcomeJson("statusCode", <<>>, 2),
                    BloomJson(Zeros(BloomLen))))

\* a trace that adds to and subtracts from one balance and writes one slot
\* twice, with a write to another slot in between
TraceD ==
    TraceJson(Zeros(H256Len),
        <<BalanceOpJson(AccountB, 7, "add"), BalanceOpJson(AccountB, 7, "sub")>>,
        <<StorageChangeJson(AccountB, HashA, U256(1)),
          StorageChangeJson(AccountA, HashA, U256(3)),
          StorageChangeJson(AccountB, HashA, U256(2))>>,
        ReceiptJson("accessList", StatusOne, BloomJson(BloomA)))

\* a trace with the given balance operation after a well-formed one
TraceWithOp(op) ==
    TraceJson(HashA, <<BalanceOpJson(AccountA, 500, "sub"),
                       BalanceOpJson(AccountB, 500, op)>>,
              <<>>, ReceiptJson("legacy", StatusOne, BloomJson(BloomA)))

\* traces that are malformed: a balanceOp without op or with an op that is
\* no variant, a receipt or an outcome that is no variant, a status code
\* that is no u8, a logBloom out of BadBloomJsons
BadTraces ==
    { TraceWithOp(Absent), TraceWithOp("mul") }
    \cup { TraceJson(HashA, <<>>, <<>>, ReceiptJson("Legacy", StatusOne, BloomJson(BloomA))),
           TraceJson(HashA, <<>>, <<>>,
               ReceiptJson("legacy", OutcomeJson("StatusCode", <<>>, 1), BloomJson(BloomA))),
           TraceJson(HashA, <<>>, <<>>,
               ReceiptJson("legacy", OutcomeJson("statusCode", <<>>, 256), BloomJson(BloomA))) }
    \cup { TraceJson(HashA, <<>>, <<>>, ReceiptJson("legacy", StatusOne, b)) :
               b \in BadBloomJsons }

BlockJson(number, traces) == [number |-> number, traces |-> traces, cut |-> FALSE]

BlockA == 7103749

BlockB == 8519876

GoodBlocks ==
    { BlockJson(BlockA, <<TraceA>>), BlockJson(BlockB, <<TraceB, TraceA>>),
      BlockJson(BlockB, <<>>), BlockJson(BlockA, <<TraceC, TraceD>>) }

\* blocks with a malformed trace after a well-formed one, and the block at
\* which the document ends early
BadBlocks ==
    { BlockJson(BlockB, <<TraceA, t>>) : t \in BadTraces }
    \cup { [number |-> BlockB, traces |-> <<>>, cut |-> TRUE] }

Resources == SeqsUpTo(GoodBlocks \cup BadBlocks, MaxBlocks)

\* a block number that no resource has
OtherBlock == BlockA + 1

\* the block numbers a caller asks the registry for
LookupKeys == {BlockA, BlockB, OtherBlock}

\* no block asked for yet
NotAsked == 0

\* an account that no trace names
AccountC == [i \in 1..AddressLen |-> 110 + i]

Accounts == {AccountA, AccountB, AccountC}

\* the storage slots of the states
Slots == Accounts \X Hashes

\* the states a trace is applied to; every balance covers what the traces
\* subtract from it
States ==
    { [balances |-> [a \in Accounts |-> 1000],
       storage |-> [slot \in Slots |-> U256(0)]],
      [balances |-> (AccountA :> 500 @@ AccountB :> 0 @@ AccountC :> 7),
       storage |-> [slot \in Slots |->
                       IF slot[1] = AccountB THEN U256(9) ELSE U256(128)]] }

\* no trace applied yet
NotApplied ==
    [index |-> 0, before |-> <<>>, after |-> <<>>]

(* --------------------------- state machine ---------------------------- *)

VARIABLES
    given,      \* what the caller holds: "receipt", "batch", "bytes",
                \* "resource" or "logs"
    receipt,    \* the typed receipt to encode
    batch,      \* the receipts to encode as one list
    wrote,      \* the operation that filled `wire` ("none" before any)
    wire,       \* the bytes written, or received from a peer
    read,       \* the decoder applied to `wire` ("none" before any)
    result,     \* what that decoder returned
    resource,   \* the frozen-state resource to load
    frozen,     \* how restore_frozen_state ended (NoResult before the call)
    asked,      \* the block number looked up in the registry (NotAsked before)
    found,      \* what the lookup returned

    args,       \* the outcome, gasUsed and logs for LegacyReceipt::new
    made,       \* the receipt LegacyReceipt::new returned (NotMade before)
    applied     \* the trace of the block found that was applied, by its
                \* index, with the state before and after (NotApplied before)

lookupVars == <<asked, found>>

newVars == <<args, made, applied>>

vars ==
    <<given, receipt, batch, wrote, wire, read, result, resource, frozen,
      asked, found, args, made, applied>>

\* the caller holds a receipt, a batch of receipts, bytes sent by a peer,
\* a frozen-state resource, or the arguments of LegacyReceipt::new
Init ==
    /\ read = "none"
    /\ result = NoResult
    /\ frozen = NoResult
    /\ asked = NotAsked
    /\ found = None
    /\ made = NotMade
    /\ applied = NotApplied
    /\ \/ /\ given = "receipt"
          /\ receipt \in TypedReceipts
          /\ batch = <<>>
          /\ wrote = "none"
          /\ wire = <<>>
          /\ resource = <<>>
          /\ args = NoArgs
       \/ /\ given = "batch"
          /\ receipt = NoReceipt
          /\ batch \in Batches
          /\ wrote = "none"
          /\ wire = <<>>
          /\ resource = <<>>
          /\ args = NoArgs
       \/ /\ given = "bytes"
          /\ receipt = NoReceipt
          /\ batch = <<>>
          /\ wrote = "peer"
          /\ wire \in PeerBytes
          /\ resource = <<>>
          /\ args = NoArgs
       \/ /\ given = "resource"
          /\ receipt = NoReceipt
          /\ batch = <<>>
          /\ wrote = "none"
          /\ wire = <<>>
          /\ resource \in Resources
          /\ args = NoArgs
       \/ /\ given = "logs"
          /\ receipt = NoReceipt
          /\ batch = <<>>
          /\ wrote = "none"
          /\ wire = <<>>
          /\ resource = <<>>
          /\ args \in NewArgs

Written(have, name, bytes) ==
    /\ given = have
    /\ wrote = "none"
    /\ wrote' = name
    /\ wire' = bytes
    /\ UNCHANGED <<given, receipt, batch, read, result, resource, frozen>>
    /\ UNCHANGED <<lookupVars, newVars>>

\* LegacyReceipt::rlp_append of the wrapped receipt into a fresh stream
LegacyRlpAppend ==
    Written("receipt", "LegacyReceipt::rlp_append",
            LegacyReceipt_rlp_append(receipt.receipt))

\* TypedReceipt::encode
Encode == Written("receipt", "TypedReceipt::encode", TypedReceipt_encode(receipt))

\* TypedReceipt::rlp_append into a fresh stream
RlpAppend ==
    Written("receipt", "TypedReceipt::rlp_append", TypedReceipt_rlp_append(receipt))

\* TypedReceipt::rlp_append_list into a fresh stream
RlpAppendList ==
    Written("batch", "TypedReceipt::rlp_append_list",
            TypedReceipt_rlp_append_list(batch))

Decoded(name, r) ==
    /\ wrote # "none"
    /\ read = "none"
    /\ read' = name
    /\ result' = r
    /\ UNCHANGED <<given, receipt, batch, wrote, wire, resource, frozen>>
    /\ UNCHANGED <<lookupVars, newVars>>

LegacyDecode == Decoded("LegacyReceipt::decode", LegacyReceipt_decode(wire))

Decode == Decoded("TypedReceipt::decode", TypedReceipt_decode(wire))

DecodeRlp == Decoded("TypedReceipt::decode_rlp", TypedReceipt_decode_rlp(wire))

DecodeRlpList ==
    Decoded("TypedReceipt::decode_rlp_list", TypedReceipt_decode_rlp_list(wire))

\* restore_frozen_state on the resource
Restore ==
    /\ given = "resource"
    /\ frozen = NoResult
    /\ frozen' = restore_frozen_state(resource)
    /\ UNCHANGED <<given, receipt, batch, wrote, wire, read, result, resource>>
    /\ UNCHANGED <<lookupVars, newVars>>

\* a lookup of a block number in the restored registry
Lookup ==
    /\ given = "resource"
    /\ frozen.ok
    /\ asked = NotAsked
    /\ \E n \in LookupKeys :
          /\ asked' = n
          /\ found' = get(frozen.val, n)
    /\ UNCHANGED <<given, receipt, batch, wrote, wire, read, result, resource,
                   frozen>>
    /\ UNCHANGED newVars

\* LegacyReceipt::new on the arguments
New ==
    /\ given = "logs"
    /\ made = NotMade
    /\ made' = LegacyReceipt_new(args.outcome, args.gas_used, args.logs)
    /\ UNCHANGED <<given, receipt, batch, wrote, wire, read, result, resource,
                   frozen, args, applied>>
    /\ UNCHANGED lookupVars

\* a trace of the block found is applied to a state
Apply ==
    /\ given = "resource"
    /\ found.some
    /\ applied = NotApplied
    /\ \E i \in 1..Len(found.val) : \E state \in States :
          applied' = [index |-> i, before |-> state,
                      after |-> apply_trace(state, found.val[i])]
    /\ UNCHANGED <<given, receipt, batch, wrote, wire, read, result, resource,
                   frozen, args, made>>
    /\ UNCHANGED lookupVars

Next ==
    \/ LegacyRlpAppend
    \/ Encode
    \/ RlpAppend
    \/ RlpAppendList
    \/ LegacyDecode
    \/ Decode
    \/ DecodeRlp
    \/ DecodeRlpList
    \/ Restore
    \/ Lookup
    \/ New
    \/ Apply

Spec == Init /\ [][Next]_vars

(* ------------------------------ claims -------------------------------- *)

LegacyRoundTrip ==
    wrote = "LegacyReceipt::rlp_append" /\ read = "LegacyReceipt::decode"

\* C1: LegacyReceipt::decode of the bytes written by LegacyReceipt::rlp_append
\* succeeds and returns the receipt that was written, equal in gasUsed,
\* logBloom, logs and outcome, whatever the logBloom is.
C1_LegacyRoundTrip ==
    LegacyRoundTrip =>
        /\ result.ok
        /\ result.val.gas_used = receipt.receipt.gas_used
        /\ result.val.log_bloom = receipt.receipt.log_bloom
        /\ result.val.logs = receipt.receipt.logs
        /\ result.val.outcome = receipt.receipt.outcome

\* a receipt with no logs and a non-zero bloom (not the accrual of its logs)
\* has been written and read back with that bloom
C1_Witness ==
    /\ LegacyRoundTrip
    /\ receipt.receipt.logs = <<>>
    /\ receipt.receipt.log_bloom = BloomA
    /\ receipt.receipt.outcome.tag = "StateRoot"
    /\ result.ok
    /\ result.val.log_bloom = BloomA

\* the raw items of the list on the wire
WireItems == iter(wire)

\* a raw item that is a byte string of length 0 or 1: a single byte below
\* 0x80, the empty string 0x80, or 0x81 followed by one byte
ShortString(item) == item[1] <= 129

\* C2: of a 4-item list, LegacyReceipt::decode makes a StatusCode exactly when
\* field 0 is a byte string of length <= 1 (the empty string giving
\* StatusCode(0)) and a StateRoot otherwise; a written StatusCode(0) is read
\* back as StatusCode(0) and a written StateRoot(h) as StateRoot(h).
C2_Disambiguation ==
    read = "LegacyReceipt::decode" =>
        /\ (result.ok /\ is_list(wire) /\ Len(WireItems) = 4) =>
              /\ result.val.outcome.tag = "StatusCode" <=> ShortString(WireItems[1])
              /\ result.val.outcome.tag = "StateRoot" <=> ~ShortString(WireItems[1])
              /\ WireItems[1] = <<128>> => result.val.outcome = StatusCode(0)
        /\ (wrote = "LegacyReceipt::rlp_append"
                /\ receipt.receipt.outcome.tag \in {"StatusCode", "StateRoot"}) =>
              /\ Len(WireItems) = 4
              /\ result.ok
              /\ result.val.outcome = receipt.receipt.outcome

\* a peer's 4-item list whose field 0 is the empty string was read as
\* StatusCode(0)
C2_Witness ==
    /\ wrote = "peer"
    /\ read = "LegacyReceipt::decode"
    /\ is_list(wire)
    /\ Len(WireItems) = 4
    /\ WireItems[1] = <<128>>
    /\ result.ok
    /\ result.val.outcome = StatusCode(0)

\* the bytes are exactly one RLP list: a list header whose length covers
\* all the bytes after it
ExactlyOneList(bytes) ==
    /\ bytes # <<>>
    /\ bytes[1] >= 192
    /\ payload_info(bytes).ok
    /\ payload_info(bytes).val.header_len + payload_info(bytes).val.value_len
           = Len(bytes)

\* C3: TypedReceipt::encode of a Legacy receipt is the RLP list of the wrapped
\* receipt with no prefix; of an AccessList receipt it is the AccessList id byte
\* followed by that same list; the two differ by that one leading byte only.
C3_Framing ==
    wrote = "TypedReceipt::encode" =>
        /\ receipt.type = "Legacy" =>
              /\ wire = LegacyReceipt_rlp_append(receipt.receipt)
              /\ ExactlyOneList(wire)
        /\ receipt.type = "AccessList" =>
              /\ wire[1] = AccessListId
              /\ Tail(wire) = LegacyReceipt_rlp_append(receipt.receipt)
              /\ ExactlyOneList(Tail(wire))
              /\ Tail(wire) = TypedReceipt_encode(Legacy(receipt.receipt))

\* an AccessList receipt with logs and a state root has been encoded
C3_Witness ==
    /\ wrote = "TypedReceipt::encode"
    /\ receipt.type = "AccessList"
    /\ receipt.receipt.outcome.tag = "StateRoot"
    /\ Len(receipt.receipt.logs) = MaxLogs
    /\ wire[1] = AccessListId

TypedRoundTrip == wrote = "TypedReceipt::encode" /\ read = "TypedReceipt::decode"

\* C4: TypedReceipt::decode of TypedReceipt::encode(t) succeeds and returns t:
\* the same variant and the same wrapped receipt.
C4_TypedRoundTrip ==
    TypedRoundTrip =>
        /\ result.ok
        /\ result.val.type = receipt.type
        /\ result.val.receipt = receipt.receipt

\* an AccessList receipt has been encoded and decoded as AccessList
C4_Witness ==
    /\ TypedRoundTrip
    /\ receipt.type = "AccessList"
    /\ receipt.receipt.outcome = StatusCode(0)
    /\ result.ok
    /\ result.val.type = "AccessList"

BatchRoundTrip ==
    wrote = "TypedReceipt::rlp_append_list" /\ read = "TypedReceipt::decode_rlp_list"

\* C5: TypedReceipt::decode_rlp_list of the list written by rlp_append_list(L)
\* succeeds and returns a sequence as long as L whose i-th element is L[i], in
\* variant and in value.
C5_BatchRoundTrip ==
    BatchRoundTrip =>
        /\ result.ok
        /\ Len(result.val) = Len(batch)
        /\ \A i \in 1..Len(batch) :
              /\ result.val[i].type = batch[i].type
              /\ result.val[i].receipt = batch[i].receipt

\* a batch of MaxBatch receipts mixing both variants has been read back
C5_Witness ==
    /\ BatchRoundTrip
    /\ Len(batch) = MaxBatch
    /\ batch[1].type = "AccessList"
    /\ batch[Len(batch)].type = "Legacy"
    /\ result.ok
    /\ Len(result.val) = MaxBatch

\* the bytes are a non-list item with a payload whose first byte is no
\* transaction type
UnknownTypePayload(bytes) ==
    /\ bytes # <<>>
    /\ bytes[1] < 192
    /\ data(bytes).ok
    /\ data(bytes).val # <<>>
    /\ ~try_from_wire_byte(data(bytes).val[1]).ok

\* C6: decoding a non-list item whose payload starts with a byte that is no
\* transaction type fails with the unknown-type error, whatever follows that
\* byte; no receipt, Legacy or other, is produced.
C6_UnknownType ==
    /\ (read = "TypedReceipt::decode_rlp" /\ UnknownTypePayload(wire)) =>
          ~result.ok /\ result.err = "Unknown transaction"
    /\ (read = "TypedReceipt::decode" /\ wire # <<>>
            /\ ~try_from_wire_byte(wire[1]).ok) =>
          ~result.ok /\ result.err = "Unknown transaction"

\* a byte string made of 0x7f and a well-formed receipt list was refused
C6_Witness ==
    /\ read = "TypedReceipt::decode_rlp"
    /\ UnknownTypePayload(wire)
    /\ data(wire).val[1] = 127
    /\ LegacyReceipt_decode(Tail(data(wire).val)).ok
    /\ ~result.ok

\* C7: decoding a zero-length receipt byte string fails with the
\* malformed-length error, through TypedReceipt::decode on an empty slice and
\* through TypedReceipt::decode_rlp on an empty byte string item.
C7_EmptyPayload ==
    /\ (read = "TypedReceipt::decode" /\ wire = <<>>) =>
          ~result.ok /\ result.err = "RlpIncorrectListLen"
    /\ (read = "TypedReceipt::decode_rlp" /\ wire = <<128>>) =>
          ~result.ok /\ result.err = "RlpIncorrectListLen"

\* the empty byte string item has been given to decode_rlp
C7_Witness ==
    /\ read = "TypedReceipt::decode_rlp"
    /\ wire = <<128>>
    /\ ~result.ok

\* the fields at positions base, base + 1, base + 2 of the list on the wire
\* are the receipt's gasUsed, logBloom and logs
FieldsAt(base, r) ==
    /\ WireItems[base + 1] = append_U256(r.gas_used)
    /\ WireItems[base + 2] = append_fixed(r.log_bloom)
    /\ collect(LogEntry_decode, iter(WireItems[base + 3])).ok
    /\ collect(LogEntry_decode, iter(WireItems[base + 3])).val = r.logs

\* C8: LegacyReceipt::decode goes by the item count alone: 3 items give outcome
\* Unknown with gasUsed, logBloom, logs from positions 0, 1, 2; 4 items read
\* them from positions 1, 2, 3; any other count fails with the
\* malformed-length error.
C8_ItemCount ==
    (read = "LegacyReceipt::decode" /\ is_list(wire)) =>
        /\ Len(WireItems) \notin {3, 4} =>
              ~result.ok /\ result.err = "RlpIncorrectListLen"
        /\ (Len(WireItems) = 3 /\ result.ok) =>
              result.val.outcome = Unknown /\ FieldsAt(0, result.val)
        /\ (Len(WireItems) = 4 /\ result.ok) =>
              result.val.outcome # Unknown /\ FieldsAt(1, result.val)
        /\ result.ok => Len(WireItems) \in {3, 4}

\* a list of five items has been refused
C8_Witness ==
    /\ read = "LegacyReceipt::decode"
    /\ is_list(wire)
    /\ Len(WireItems) = 5
    /\ ~result.ok
    /\ result.err = "RlpIncorrectListLen"

\* C9: TypedReceipt::decode_rlp of a list item is the Legacy path: Legacy(r)
\* when LegacyReceipt::decode of the list gives r, its error otherwise; an
\* AccessList comes only from a non-list item whose payload is the AccessList
\* id followed by bytes that decode as a receipt list.
C9_ListIsLegacy ==
    read = "TypedReceipt::decode_rlp" =>
        /\ (wire # <<>> /\ wire[1] >= 192) =>
              IF LegacyReceipt_decode(wire).ok
              THEN /\ result.ok
                   /\ result.val.type = "Legacy"
                   /\ result.val.receipt = LegacyReceipt_decode(wire).val
              ELSE ~result.ok /\ result.err = LegacyReceipt_decode(wire).err
        /\ (result.ok /\ result.val.type = "AccessList") =>
              /\ wire[1] < 192
              /\ data(wire).val[1] = AccessListId
              /\ LegacyReceipt_decode(Tail(data(wire).val)) = Ok(result.val.receipt)

\* a peer's list item has been decoded as a Legacy receipt
C9_Witness ==
    /\ wrote = "peer"
    /\ read = "TypedReceipt::decode_rlp"
    /\ is_list(wire)
    /\ result.ok
    /\ result.val.type = "Legacy"

Restored == given = "resource" /\ frozen # NoResult

\* some entry of the resource is malformed
Malformed(entries) ==
    \E i \in 1..Len(entries) :
        \/ entries[i].cut
        \/ \E j \in 1..Len(entries[i].traces) : entries[i].traces[j] \in BadTraces

\* restore_frozen_state never hands out a table when an entry is malformed,
\* whatever was read before that entry
NoPartialTable == (Restored /\ Malformed(resource)) => ~frozen.ok

\* C10: restore_frozen_state on a resource with a malformed entry anywhere
\* returns an error to its caller, and no table.
C10_AllOrNothing ==
    (Restored /\ Malformed(resource)) => (~frozen.ok /\ ~frozen.panic)

\* a malformed entry after a well-formed block has been read
C10_Witness ==
    /\ Restored
    /\ Len(resource) = 2
    /\ ~Malformed(<<resource[1]>>)
    /\ Malformed(<<resource[2]>>)
    /\ ~frozen.ok

\* the block numbers that are keys of the resource
Keys(entries) == {entries[i].number : i \in 1..Len(entries)}

\* the traces the resource lists under a block number: those of the last
\* entry with that key
ListedTraces(entries, n) ==
    entries[CHOOSE i \in 1..Len(entries) :
                /\ entries[i].number = n
                /\ \A j \in (i + 1)..Len(entries) : entries[j].number # n].traces

\* a receipt of the registry holds what its JSON object lists
SameReceipt(t, json) ==
    /\ t.type = "Legacy" <=> json.variant = "legacy"
    /\ t.type = "AccessList" <=> json.variant = "accessList"
    /\ t.receipt.gas_used = json.receipt.gasUsed
    /\ t.receipt.logs = json.receipt.logs
    /\ BloomJson(t.receipt.log_bloom) = json.receipt.logBloom
    /\ t.receipt.outcome.tag = "Unknown" <=> json.receipt.outcome.tag = "unknown"
    /\ t.receipt.outcome.tag = "StateRoot" <=>
           json.receipt.outcome.tag = "stateRoot"
    /\ t.receipt.outcome.tag = "StatusCode" <=>
           json.receipt.outcome.tag = "statusCode"
    /\ t.receipt.outcome.tag = "StateRoot" =>
           t.receipt.outcome.root = json.receipt.outcome.root
    /\ t.receipt.outcome.tag = "StatusCode" =>
           t.receipt.outcome.code = json.receipt.outcome.code

\* a trace of the registry holds what its JSON object lists, in that order
SameTrace(t, json) ==
    /\ t.id = json.id
    /\ Len(t.balance_ops) = Len(json.balanceOps)
    /\ \A i \in 1..Len(t.balance_ops) :
          /\ t.balance_ops[i].account = json.balanceOps[i].account
          /\ t.balance_ops[i].amount = json.balanceOps[i].amount
          /\ t.balance_ops[i].op = "Add" <=> json.balanceOps[i].op = "add"
          /\ t.balance_ops[i].op = "Sub" <=> json.balanceOps[i].op = "sub"
    /\ Len(t.storage_changes) = Len(json.storageChanges)
    /\ \A i \in 1..Len(t.storage_changes) :
          /\ t.storage_changes[i].account = json.storageChanges[i].account
          /\ t.storage_changes[i].key = json.storageChanges[i].key
          /\ t.storage_changes[i].value = json.storageChanges[i].value
    /\ SameReceipt(t.receipt, json.receipt)

SameTraces(ts, jsons) ==
    /\ Len(ts) = Len(jsons)
    /\ \A i \in 1..Len(ts) : SameTrace(ts[i], jsons[i])

Looked == given = "resource" /\ asked # NotAsked

\* C11: a registry returned by restore_frozen_state has exactly the block
\* numbers of the resource as its keys; a lookup of a key returns that
\* block's traces in listed order, each with its id, its balanceOps and
\* storageChanges in listed order and its receipt; a lookup of any other
\* number returns nothing; the empty resource gives the empty registry.
C11_Registry ==
    /\ (Restored /\ frozen.ok) =>
          /\ DOMAIN frozen.val = Keys(resource)
          /\ \A n \in Keys(resource) :
                SameTraces(frozen.val[n], ListedTraces(resource, n))
    /\ (Restored /\ resource = <<>>) => (frozen.ok /\ DOMAIN frozen.val = {})
    /\ Looked =>
          /\ found.some <=> asked \in Keys(resource)
          /\ found.some => SameTraces(found.val, ListedTraces(resource, asked))

\* a lookup in a registry of two blocks has returned the two traces of one
C11_Witness ==
    /\ Looked
    /\ Cardinality(Keys(resource)) = 2
    /\ found.some
    /\ Len(found.val) = 2
    /\ found.val[2].balance_ops[1].op = "Sub"

\* a logBloom string that cannot be turned into a bloom: hex text that is
\* invalid, a stream that does not inflate, or fewer than 256 bytes inflated
UnusableBloom(json) == json \in BadBloomJsons /\ json.string

\* the malformed traces of the resource are all traces with such a logBloom,
\* and there is one
OnlyBloomFails(entries) ==
    /\ Malformed(entries)
    /\ \A i \in 1..Len(entries) :
          /\ ~entries[i].cut
          /\ \A j \in 1..Len(entries[i].traces) :
                entries[i].traces[j] \in BadTraces =>
                    UnusableBloom(entries[i].traces[j].receipt.receipt.logBloom)

\* C12: when a logBloom of the resource cannot be turned into a bloom,
\* restore_frozen_state ends by returning an error to its caller, and in no
\* other way.
C12_BloomErrorReturned ==
    (Restored /\ OnlyBloomFails(resource)) => (~frozen.ok /\ ~frozen.panic)

\* a resource whose logBloom does not inflate has been handed to
\* restore_frozen_state after a well-formed block
C12_Witness ==
    /\ Restored
    /\ Len(resource) = 2
    /\ ~Malformed(<<resource[1]>>)
    /\ OnlyBloomFails(<<resource[2]>>)
    /\ resource[2].traces[2].receipt.receipt.logBloom = JsonString(hex_text(<<7>>))

\* for each such logBloom the call panics: it never returns, neither a
\* registry nor an error
BloomFailurePanics ==
    (Restored /\ OnlyBloomFails(resource)) => frozen.panic

Made == given = "logs" /\ made # NotMade

\* bit k of a byte
Bit(byte, k) == (byte \div Pow2(k)) % 2 = 1

RECURSIVE LogBlooms(_)
\* the bloom of each log
LogBlooms(logs) ==
    IF logs = <<>> THEN <<>>
    ELSE <<LogEntry_bloom(Head(logs))>> \o LogBlooms(Tail(logs))

\* the sequence with its elements in the order f gives
Permuted(seq, f) == [i \in 1..Len(seq) |-> seq[f[i]]]

\* C13: LegacyReceipt::new sets logBloom to the bitwise OR of the blooms of
\* the given logs, from the all-zero bloom: a bit is set exactly when some
\* log's bloom has it; with no logs the bloom is all zero; every permutation
\* of the logs gives the same logBloom; logs, gasUsed and outcome are stored
\* as given.
C13_BloomAccrual ==
    Made =>
        /\ made.logs = args.logs
        /\ made.gas_used = args.gas_used
        /\ made.outcome = args.outcome
        /\ With(LogBlooms(args.logs), LAMBDA blooms :
              \A i \in 1..BloomLen : \A k \in 0..7 :
                  Bit(made.log_bloom[i], k) <=>
                      \E j \in 1..Len(blooms) : Bit(blooms[j][i], k))
        /\ args.logs = <<>> => made.log_bloom = Zeros(BloomLen)
        /\ \A f \in Permutations(1..Len(args.logs)) :
              LegacyReceipt_new(args.outcome, args.gas_used,
                                Permuted(args.logs, f)).log_bloom = made.log_bloom

\* a receipt has been made from two different logs
C13_Witness ==
    /\ Made
    /\ Len(args.logs) = 2
    /\ args.logs[1] # args.logs[2]
    /\ made.log_bloom # LogEntry_bloom(args.logs[1])
    /\ made.log_bloom # LogEntry_bloom(args.logs[2])

\* an outcome that is no StatusCode, or a StatusCode of 0 or 1
StatusBit(outcome) == outcome.tag = "StatusCode" => outcome.code \in {0, 1}

\* C14: every receipt obtained from LegacyReceipt::decode,
\* TypedReceipt::decode_rlp or restore_frozen_state that has a StatusCode
\* outcome has the status byte 0 or 1.
C14_StatusBit ==
    /\ (read = "LegacyReceipt::decode" /\ result.ok) =>
          StatusBit(result.val.outcome)
    /\ (read = "TypedReceipt::decode_rlp" /\ result.ok) =>
          StatusBit(result.val.receipt.outcome)
    /\ (Restored /\ frozen.ok) =>
          \A n \in DOMAIN frozen.val : \A i \in 1..Len(frozen.val[n]) :
              StatusBit(frozen.val[n][i].receipt.receipt.outcome)

\* a peer's 4-item list whose first item is the byte 0x7f has been decoded
C14_Witness ==
    /\ wrote = "peer"
    /\ read = "LegacyReceipt::decode"
    /\ is_list(wire)
    /\ Len(WireItems) = 4
    /\ WireItems[1] = <<127>>
    /\ result.ok

\* the decoders hand out whatever byte the input gives as the status code
StatusByteAsGiven ==
    /\ (wrote = "peer" /\ read = "LegacyReceipt::decode" /\ result.ok
            /\ Len(WireItems) = 4 /\ WireItems[1] = <<127>>) =>
          result.val.outcome = StatusCode(127)
    /\ (Restored /\ frozen.ok /\ resource # <<>>
            /\ resource[Len(resource)] = BlockJson(BlockA, <<TraceC, TraceD>>)) =>
          frozen.val[BlockA][1].receipt.receipt.outcome = StatusCode(2)

Applied == given = "resource" /\ applied # NotApplied

RECURSIVE Total(_, _, _)
\* the sum of the amounts the operations of one kind put on an account
Total(ops, account, kind) ==
    IF ops = <<>> THEN 0
    ELSE (IF Head(ops).account = account /\ Head(ops).op = kind
          THEN FromBigEndian(Head(ops).amount) ELSE 0)
         + Total(Tail(ops), account, kind)

\* the places in the list of the changes that name the slot
Naming(changes, slot) ==
    {i \in 1..Len(changes) : <<changes[i].account, changes[i].key>> = slot}

\* the greatest of a non-empty set of numbers
Last(S) == CHOOSE i \in S : \A j \in S : j <= i

\* the state after a trace, against the state before it
AppliedAs(trace, before, after) ==
    /\ DOMAIN after.balances = DOMAIN before.balances
    /\ DOMAIN after.storage = DOMAIN before.storage
    /\ \A a \in DOMAIN before.balances :
          after.balances[a] + Total(trace.balance_ops, a, "Sub")
              = before.balances[a] + Total(trace.balance_ops, a, "Add")
    /\ \A slot \in DOMAIN before.storage :
          IF Naming(trace.storage_changes, slot) = {}
          THEN after.storage[slot] = before.storage[slot]
          ELSE after.storage[slot] =
                   trace.storage_changes[Last(Naming(trace.storage_changes, slot))].value
    /\ after.receipt = trace.receipt

\* C15: a trace applied to a state gives the state with its balanceOps
\* applied in listed order and then its storageChanges in listed order: each
\* balance moves by what the trace adds to and subtracts from it, every slot
\* a change names holds the value of the last listed change for it, whatever
\* it held, every other balance and slot is as before, and the receipt is
\* the recorded one.
C15_ApplyTrace ==
    Applied =>
        /\ AppliedAs(found.val[applied.index], applied.before, applied.after)
        /\ SameReceipt(applied.after.receipt,
                       ListedTraces(resource, asked)[applied.index].receipt)

\* a trace that writes one slot twice has been applied to a state where the
\* slot held something else
C15_Witness ==
    /\ Applied
    /\ Len(found.val[applied.index].storage_changes) = 3
    /\ applied.before.storage[<<AccountB, HashA>>] = U256(9)
    /\ applied.after.storage[<<AccountB, HashA>>] = U256(2)
    /\ applied.after.storage[<<AccountA, HashA>>] = U256(3)
    /\ applied.after.balances = applied.before.balances

\* the payload length of a raw item that is a byte string of at most 55
\* bytes, read off its first byte
StringLen(item) == IF item[1] < 128 THEN 1 ELSE item[1] - 128

\* a raw item that is a nested list, or a byte string of 2 to 31 or of more
\* than 32 bytes
NotRootSized(item) ==
    \/ item[1] >= 192
    \/ /\ item[1] < 184
       /\ StringLen(item) >= 2
       /\ StringLen(item) # H256Len

\* C16: LegacyReceipt::decode of a 4-item list whose field 0 is a nested
\* list or a byte string of 2..31 or more than 32 bytes fails and returns
\* no receipt; a StateRoot only ever comes from a 32-byte field 0, whose
\* bytes it holds.
C16_NoShortRoot ==
    (read = "LegacyReceipt::decode" /\ is_list(wire) /\ Len(WireItems) = 4) =>
        /\ NotRootSized(WireItems[1]) => ~result.ok
        /\ (result.ok /\ result.val.outcome.tag = "StateRoot") =>
              /\ WireItems[1][1] = 128 + H256Len
              /\ result.val.outcome.root = Tail(WireItems[1])

\* a peer's 4-item list with a field 0 of 31 bytes and well-formed other
\* fields has been refused
C16_Witness ==
    /\ wrote = "peer"
    /\ read = "LegacyReceipt::decode"
    /\ wire = encode_list(<<encode_value(Fill(H256Len - 1, 7)), GasItem,
                            BloomItem, LogsItem>>)
    /\ ~result.ok

\* the places of the items that TypedReceipt::decode_rlp refuses
Refused(items) ==
    {k \in 1..Len(items) : ~TypedReceipt_decode_rlp(items[k]).ok}

\* the least of a non-empty set of numbers
First(S) == CHOOSE i \in S : \A j \in S : i <= j

\* C17: TypedReceipt::decode_rlp_list of an item that is no list fails with
\* RlpIncorrectListLen; when the item at some position fails to decode, the
\* call returns the error of the first such item and no receipts; otherwise
\* it returns one receipt per item of the list, in order.
C17_ListAllOrNothing ==
    read = "TypedReceipt::decode_rlp_list" =>
        IF ~is_list(wire) THEN result = Err("RlpIncorrectListLen")
        ELSE IF Refused(WireItems) # {}
        THEN /\ ~result.ok
             /\ result.val = <<>>
             /\ result.err =
                    TypedReceipt_decode_rlp(WireItems[First(Refused(WireItems))]).err
        ELSE /\ result.ok
             /\ Len(result.val) = item_count(wire).val
             /\ \A k \in 1..Len(result.val) :
                   Ok(result.val[k]) = TypedReceipt_decode_rlp(WireItems[k])

\* a peer's list of a well-formed receipt followed by an item of an unknown
\* type has been refused
C17_Witness ==
    /\ wrote = "peer"
    /\ read = "TypedReceipt::decode_rlp_list"
    /\ is_list(wire)
    /\ Len(WireItems) = 2
    /\ Refused(WireItems) = {2}
    /\ result = Err("Unknown transaction")

\* bytes at the end of a list's payload that are no item are passed over:
\* the list counts, and decodes to, the items before them
TrailingBytesPassedOver ==
    (read = "TypedReceipt::decode_rlp_list" /\ is_list(wire) /\ Len(wire) > 1
        /\ wire[Len(wire)] = 184) =>
        (result.ok /\ Len(result.val) = 1 /\ item_count(wire) = Ok(1))

=========================================================================
